---- MODULE Spec2Model ----
(***************************************************************************)
(* Model of package keysort (error-aware variant): a keySortable wraps a   *)
(* container, tracks swaps, memoizes the container's Key() by original     *)
(* index, primes the memo with a pool of goroutines and records errors.    *)
(*                                                                         *)
(* Every method of keySortable has a VALUE receiver, so each call works on *)
(* its own copy of the struct: the slice and the two maps are shared by    *)
(* reference, the embedded sync.Mutex is copied.  The model therefore      *)
(* keeps one mutex per running call (mu[p]) and treats overlapping map     *)
(* accesses of different goroutines as a data race.                        *)
(*                                                                         *)
(* The client goroutine issues its calls one after the other (the contract *)
(* of sort.Sort); a call of it that runs while no other goroutine exists   *)
(* is one step.  The goroutines of a memoize pass run Key step by step.    *)
(***************************************************************************)
EXTENDS Integers, Sequences, FiniteSets, TLC

\* ---------------------------------------------------------------- bounds
MaxN == 2
MaxKey == 2
MaxWorkers == 2
MaxFail == 1
MaxCalls == 2

\* ------------------------------------------------------------- constants
\* the goroutines started by memoize
Workers == 1..MaxWorkers

\* memo[d] = Absent: the map has no entry for d; also the nil interface a
\* Go map read yields for a missing key
Absent == -1
\* the value a failing container Key() hands back together with its error
Sentinel == 0

Values == {Absent, Sentinel} \cup (1..MaxKey)

VARIABLES
  n,          \* wrapped.Len()
  elemKey,    \* elemKey[e]: key of the element that started at index e
  failing,    \* indexes for which the container's Key() currently fails
  data,       \* data[p]: the element stored at position p of the container
  swaps,      \* ks.swaps
  memo,       \* ks.memo
  errors,     \* key set of ks.errors
  calls,      \* calls[d]: invocations of wrapped.Key(d) so far
  failed,     \* indexes whose wrapped.Key invocation has returned an error
  pc,         \* pc[w]: where worker w stands in its loop and inside Key
  ki,         \* ki[w]: argument i of the Key call w is running
  orig,       \* orig[w]: originalIndex of that call
  val,        \* val[w]: value returned by wrapped.Key
  err,        \* err[w]: whether wrapped.Key returned an error
  mu,         \* mu[w]: whether the call's own copy of the mutex is locked
  raced,      \* workers whose map write overlapped another map write
  mop,        \* where the client goroutine is: new, idle, gen, wait
  primed,     \* the adapter was built by PrimedKeysort
  last,       \* the call the client goroutine has just completed
  retry,      \* ks.errors and the call counts when RetryFailed was called
  genList,    \* indexes the running memoize pass sends on iChan
  genPos,     \* next entry of genList to send
  closed,     \* iChan is closed
  wg,         \* the WaitGroup counter
  nworkers,   \* goroutines started by the running memoize pass
  recvBy,     \* recvBy[k]: workers that received the k-th entry of genList
  memoFor,    \* caller of the running memoize pass
  crashed     \* the runtime has thrown a fatal error

input == <<n, elemKey, failing, data>>
shared == <<swaps, memo, errors, calls, failed>>
locals == <<pc, ki, orig, val, err, mu, raced>>
client == <<mop, primed, last, retry>>
pool == <<genList, genPos, closed, wg, nworkers, recvBy, memoFor>>
vars == <<input, shared, locals, client, pool, crashed>>

Ids == 0..(n - 1)

\* what the client goroutine keeps of a completed call until its next call
Done(op, i, j, ret, v) == [op |-> op, i |-> i, j |-> j, ret |-> ret, val |-> v]

NoLast == Done("none", 0, 0, FALSE, Absent)

NoRetry == [F |-> {}, calls |-> [d \in Ids |-> 0]]

\* ------------------------------------------------------- the container
\* ByIntKey.LessVal: i.(int) < j.(int)
LessVal(a, b) == a < b

\* ByIntKey.Less, the unmemoized comparator: s.At(i).IntKey < s.At(j).IntKey
DirectLess(i, j) == elemKey[data[i]] < elemKey[data[j]]

\* ByIntKey.Key(i): the key of the element stored at index i NOW
WrappedKey(i) == elemKey[data[i]]

\* SpecimenSliceSorter.Swap: s[i], s[j] = s[j], s[i]
WrappedSwap(s, i, j) == [s EXCEPT ![i] = s[j], ![j] = s[i]]

\* ------------------------------------------------------------ Keysort
\* make([]int, wrappedLen)
ZeroSwaps == [i \in Ids |-> 0]

\* for i := 0; i < wrapped.Len(); i++ { swaps[i] = i }
IdentitySwaps == [i \in Ids |-> i]


\* a swap that writes only one of the two entries
SwappedSwapsOneSided(sw, i, j) == [sw EXCEPT ![i] = sw[j]]


\* a Swap that forwards to the container and does not track the swap
SwappedSwapsUntracked(sw, i, j) == sw

\* line 118: ks.swaps[i], ks.swaps[j] = ks.swaps[j], ks.swaps[i]
SwappedSwaps(sw, i, j) == [sw EXCEPT ![i] = sw[j], ![j] = sw[i]]

\* map[int]interface{}{}
EmptyMemo == [d \in Ids |-> Absent]


\* an Errors() that never reports
ErrorsNil(errs) == {}

\* Errors(): nil when len(ks.errors) == 0, else PrimingError{ks.errors}
Errors(errs) == errs


\* a generator that stops one index early
AllIndexesShort == [k \in 1..(n - 1) |-> k - 1]

\* allIndexes: 0, 1, ..., Len()-1 in this order
AllIndexes == [k \in 1..n |-> k - 1]

\* erroredIndexes: collects the keys of ks.errors into a slice and then sends
\* the POSITIONS of that slice (for i := range erroredIndices)
ErroredIndexes(errs) == [k \in 1..Cardinality(errs) |-> k - 1]


\* a ClearErrors that deletes nothing
ClearedErrorsKept(errs) == errs

\* ClearErrors: delete every key of ks.errors
ClearedErrors(errs) == {k \in errs : FALSE}

\* if parallelism < 1 { parallelism = runtime.GOMAXPROCS(-1) }
WorkerCounts(parallelism) ==
  IF parallelism < 1 THEN 1..MaxWorkers ELSE {parallelism}

NoPool ==
  /\ genList = << >>
  /\ genPos = 1
  /\ closed = FALSE
  /\ wg = 0
  /\ nworkers = 0
  /\ recvBy = << >>
  /\ memoFor = "none"

Init ==
  /\ n \in 0..MaxN
  /\ elemKey \in [Ids -> 1..MaxKey]
  /\ failing \in {F \in SUBSET Ids : Cardinality(F) <= MaxFail}
  /\ data = [p \in Ids |-> p]
  /\ swaps = ZeroSwaps
  /\ memo = EmptyMemo
  /\ errors = {}
  /\ calls = [d \in Ids |-> 0]
  /\ failed = {}
  /\ pc = [w \in Workers |-> "idle"]
  /\ ki = [w \in Workers |-> 0]
  /\ orig = [w \in Workers |-> 0]
  /\ val = [w \in Workers |-> Absent]
  /\ err = [w \in Workers |-> FALSE]
  /\ mu = [w \in Workers |-> FALSE]
  /\ raced = {}
  /\ mop = "new"
  /\ primed = FALSE
  /\ last = NoLast
  /\ retry = NoRetry
  /\ NoPool
  /\ crashed = FALSE

\* ------------------------------------------------ keySortable.Key(i)
\* line 82: originalIndex := ks.swaps[i]
OriginalIndex(i) == swaps[i]


\* a lookup that never finds the entry
MemoizedNever(m, o) == FALSE


\* a lookup that takes the cached value of a failed Key() for a missing entry
MemoizedUnlessSentinel(m, o) == m[o] # Absent /\ m[o] # Sentinel

\* line 87: _, ok := ks.memo[originalIndex]
Memoized(m, o) == m[o] # Absent


\* a miss that goes on to wrapped.Key without the Unlock of line 89
HeldAfterLookupNoUnlock(found) == TRUE

\* lines 83-89: Lock(); the lock stays held on a hit (until the deferred
\* Unlock) and is released on a miss, before wrapped.Key is called
HeldAfterLookup(found) == found

\* line 92: value, err = ks.wrapped.Key(originalIndex)
KeyFails(o) == o \in failing

KeyValue(o) == IF KeyFails(o) THEN Sentinel ELSE WrappedKey(o)

\* line 96: ks.memo[originalIndex] = value
StoredMemo(m, o, v) == [m EXCEPT ![o] = v]

\* lines 98-104: note the error, or ensure it is cleared
StoredErrors(errs, o, bad) == IF bad THEN errs \cup {o} ELSE errs \ {o}

\* line 106: return ks.memo[ks.swaps[i]]
Returned(m, i) == m[swaps[i]]

\* Key(i) run from start to end on the maps and counters S, no other
\* goroutine running: the maps and counters it leaves, and ret, its result
Key(S, i) ==
  LET o == OriginalIndex(i) IN
    IF Memoized(S.memo, o)
      THEN [S EXCEPT !.ret = Returned(S.memo, i)]
      ELSE LET m == StoredMemo(S.memo, o, KeyValue(o)) IN
             [memo |-> m,
              errors |-> StoredErrors(S.errors, o, KeyFails(o)),
              calls |-> [S.calls EXCEPT ![o] = @ + 1],
              failed |-> IF KeyFails(o) THEN S.failed \cup {o} ELSE S.failed,
              ret |-> Returned(m, i)]

Current ==
  [memo |-> memo, errors |-> errors, calls |-> calls, failed |-> failed,
   ret |-> Absent]

Becomes(S) ==
  /\ \A d \in Ids : S.calls[d] <= MaxCalls
  /\ memo' = S.memo
  /\ errors' = S.errors
  /\ calls' = S.calls
  /\ failed' = S.failed

\* Another goroutine is inside its map writes (lines 96-104).
OtherStoring(p) == \E q \in Workers \ {p} : pc[q] = "storing"

\* lines 82-89: originalIndex := ks.swaps[i]; Lock() on the call's own mutex
\* copy; look originalIndex up in memo; Unlock() when it is missing
KeyLookup(p) ==
  /\ ~crashed
  /\ pc[p] = "lookup"
  /\ ~mu[p]
  /\ LET o == OriginalIndex(ki[p]) IN
       /\ orig' = [orig EXCEPT ![p] = o]
       /\ pc' = [pc EXCEPT ![p] = IF Memoized(memo, o) THEN "ret" ELSE "call"]
       /\ mu' = [mu EXCEPT ![p] = HeldAfterLookup(Memoized(memo, o))]
  /\ UNCHANGED <<input, shared, ki, val, err, raced, client, pool, crashed>>

\* line 92: value, err = ks.wrapped.Key(originalIndex), lock not held
KeyCall(p) ==
  /\ ~crashed
  /\ pc[p] = "call"
  /\ calls[orig[p]] < MaxCalls
  /\ calls' = [calls EXCEPT ![orig[p]] = @ + 1]
  /\ val' = [val EXCEPT ![p] = KeyValue(orig[p])]
  /\ err' = [err EXCEPT ![p] = KeyFails(orig[p])]
  /\ failed' = IF KeyFails(orig[p]) THEN failed \cup {orig[p]} ELSE failed
  /\ pc' = [pc EXCEPT ![p] = "store"]
  /\ UNCHANGED <<input, swaps, memo, errors, ki, orig, mu, raced, client, pool,
                 crashed>>

\* line 94: Lock() on the call's own mutex copy, then the map writes begin.
\* The lock excludes nobody: a write that begins while another goroutine is
\* inside its own writes races with it.
KeyStoreBegin(p) ==
  /\ ~crashed
  /\ pc[p] = "store"
  /\ ~mu[p]
  /\ mu' = [mu EXCEPT ![p] = TRUE]
  /\ pc' = [pc EXCEPT ![p] = "storing"]
  /\ raced' = IF OtherStoring(p)
                THEN raced \cup {p} \cup {q \in Workers : pc[q] = "storing"}
                ELSE raced
  /\ UNCHANGED <<input, shared, ki, orig, val, err, client, pool, crashed>>

\* lines 96-104 take effect; a write that raced may be lost in either map
KeyStoreEnd(p) ==
  /\ ~crashed
  /\ pc[p] = "storing"
  /\ \E keepMemo, keepErr \in (IF p \in raced THEN BOOLEAN ELSE {TRUE}) :
       /\ memo' = IF keepMemo THEN StoredMemo(memo, orig[p], val[p]) ELSE memo
       /\ errors' = IF keepErr THEN StoredErrors(errors, orig[p], err[p])
                    ELSE errors
  /\ raced' = raced \ {p}
  /\ pc' = [pc EXCEPT ![p] = "ret"]
  /\ UNCHANGED <<input, swaps, calls, failed, ki, orig, val, err, mu, client,
                 pool, crashed>>

\* line 106 and the deferred Unlock; the worker drops the value and goes back
\* to its receive
KeyReturn(p) ==
  /\ ~crashed
  /\ pc[p] = "ret"
  /\ mu[p]
  /\ mu' = [mu EXCEPT ![p] = FALSE]
  /\ pc' = [pc EXCEPT ![p] = "recv"]
  /\ ki' = [ki EXCEPT ![p] = 0]
  /\ orig' = [orig EXCEPT ![p] = 0]
  /\ val' = [val EXCEPT ![p] = Absent]
  /\ err' = [err EXCEPT ![p] = FALSE]
  /\ UNCHANGED <<input, shared, raced, client, pool, crashed>>

\* A map access that overlaps another goroutine's map write is a data race;
\* the runtime may detect it: fatal error: concurrent map writes / concurrent
\* map read and map write.
RaceFault(p) ==
  /\ ~crashed
  /\ pc[p] \in {"lookup", "store", "ret"}
  /\ OtherStoring(p)
  /\ crashed' = TRUE
  /\ UNCHANGED <<input, shared, locals, client, pool>>

\* ------------------------------------------------------------ memoize
\* lines 127-141: make the channel, wg.Add(parallelism), start the workers;
\* then genIndexes(iChan) starts sending list
StartMemoize(parallelism, list, who) ==
  \E k \in WorkerCounts(parallelism) :
    /\ nworkers' = k
    /\ wg' = k
    /\ pc' = [w \in Workers |-> IF w <= k THEN "recv" ELSE "idle"]
    /\ genList' = list
    /\ genPos' = 1
    /\ recvBy' = [i \in 1..Len(list) |-> {}]
    /\ closed' = FALSE
    /\ memoFor' = who
    /\ mop' = "gen"
    /\ last' = NoLast

\* iChan <- i meets one worker's receive (for i := range iChan; ks.Key(i))
Send(w) ==
  /\ ~crashed
  /\ mop = "gen"
  /\ genPos <= Len(genList)
  /\ pc[w] = "recv"
  /\ ki' = [ki EXCEPT ![w] = genList[genPos]]
  /\ pc' = [pc EXCEPT ![w] = "lookup"]
  /\ recvBy' = [recvBy EXCEPT ![genPos] = @ \cup {w}]
  /\ genPos' = genPos + 1
  /\ UNCHANGED <<input, shared, orig, val, err, mu, raced, client, genList,
                 closed, wg, nworkers, memoFor, crashed>>

\* close(iChan) after the last send; memoize goes on to wg.Wait()
Close ==
  /\ ~crashed
  /\ mop = "gen"
  /\ genPos > Len(genList)
  /\ closed' = TRUE
  /\ mop' = "wait"
  /\ UNCHANGED <<input, shared, locals, primed, last, retry, genList, genPos,
                 wg, nworkers, recvBy, memoFor, crashed>>

\* the range loop ends on the closed channel: wg.Done()
WorkerExit(w) ==
  /\ ~crashed
  /\ pc[w] = "recv"
  /\ closed
  /\ pc' = [pc EXCEPT ![w] = "exited"]
  /\ wg' = wg - 1
  /\ UNCHANGED <<input, shared, ki, orig, val, err, mu, raced, client, genList,
                 genPos, closed, nworkers, recvBy, memoFor, crashed>>

\* wg.Wait() returns, and with it memoize and its caller
MemoizeReturn ==
  /\ ~crashed
  /\ mop = "wait"
  /\ wg = 0
  /\ mop' = "idle"
  /\ last' = Done(memoFor, 0, 0, FALSE, Absent)
  /\ UNCHANGED <<input, shared, locals, primed, retry, pool, crashed>>

\* ------------------------------------------------- the exported surface
\* The client goroutine makes its next call: the goroutines and the channel
\* of the last memoize pass are gone.
NextCall ==
  /\ ~crashed
  /\ mop = "idle"
  /\ pc' = [w \in Workers |-> "idle"]
  /\ genList' = << >>
  /\ genPos' = 1
  /\ closed' = FALSE
  /\ wg' = 0
  /\ nworkers' = 0
  /\ recvBy' = << >>
  /\ memoFor' = "none"
  /\ retry' = NoRetry
  /\ UNCHANGED <<ki, orig, val, err, mu, raced, mop, primed, crashed>>

\* Keysort(wrapped)
Keysort ==
  /\ ~crashed
  /\ mop = "new"
  /\ swaps' = IdentitySwaps
  /\ memo' = EmptyMemo
  /\ errors' = {}
  /\ mop' = "idle"
  /\ last' = Done("keysort", 0, 0, FALSE, Absent)
  /\ UNCHANGED <<input, calls, failed, locals, primed, retry, pool, crashed>>

\* PrimedKeysort(wrapped, parallelism): Keysort, then memoize over allIndexes
PrimedKeysort(parallelism) ==
  /\ ~crashed
  /\ mop = "new"
  /\ swaps' = IdentitySwaps
  /\ memo' = EmptyMemo
  /\ errors' = {}
  /\ primed' = TRUE
  /\ StartMemoize(parallelism, AllIndexes, "primed")
  /\ UNCHANGED <<input, calls, failed, ki, orig, val, err, mu, raced, retry,
                 crashed>>

\* RetryFailed(parallelism): ClearErrors, then memoize over erroredIndexes,
\* which reads ks.errors after they were cleared
RetryFailed(parallelism) ==
  /\ ~crashed
  /\ mop = "idle"
  /\ errors' = ClearedErrors(errors)
  /\ StartMemoize(parallelism, ErroredIndexes(errors'), "retried")
  /\ retry' = [F |-> errors, calls |-> calls]
  /\ UNCHANGED <<input, swaps, memo, calls, failed, ki, orig, val, err, mu,
                 raced, primed, crashed>>

\* ClearErrors()
ClearErrors ==
  /\ NextCall
  /\ errors' = ClearedErrors(errors)
  /\ last' = Done("clear", 0, 0, FALSE, Absent)
  /\ UNCHANGED <<input, swaps, memo, calls, failed>>

\* Swap(i, j): exchange swaps[i] and swaps[j], then wrapped.Swap(i, j)
Swap(i, j) ==
  /\ NextCall
  /\ swaps' = SwappedSwaps(swaps, i, j)
  /\ data' = WrappedSwap(data, i, j)
  /\ last' = Done("swap", i, j, FALSE, Absent)
  /\ UNCHANGED <<n, elemKey, failing, memo, errors, calls, failed>>

\* a client call of Key(i)
ClientKey(i) ==
  /\ NextCall
  /\ LET S == Key(Current, i) IN
       /\ Becomes(S)
       /\ last' = Done("key", i, 0, FALSE, S.ret)
  /\ UNCHANGED <<input, swaps>>

\* Less(i, j): IValue := ks.Key(i); JValue := ks.Key(j); false when
\* Errors() != nil, else wrapped.LessVal(IValue, JValue)
Less(i, j) ==
  /\ NextCall
  /\ LET SI == Key(Current, i)
         SJ == Key(SI, j)
     IN /\ Becomes(SJ)
        /\ last' = Done("less", i, j,
                        IF Errors(SJ.errors) # {} THEN FALSE
                        ELSE LessVal(SI.ret, SJ.ret),
                        Absent)
  /\ UNCHANGED <<input, swaps>>

\* the caller repairs the condition that made the container's Key() fail
Repair ==
  /\ NextCall
  /\ failing # {}
  /\ failing' = {}
  /\ last' = Done("repair", 0, 0, FALSE, Absent)
  /\ UNCHANGED <<n, elemKey, data, shared>>

Parallelisms == -1..MaxWorkers

Next ==
  \/ Keysort
  \/ \E par \in Parallelisms : PrimedKeysort(par)
  \/ \E par \in Parallelisms : RetryFailed(par)
  \/ ClearErrors
  \/ \E i, j \in Ids : Swap(i, j)
  \/ \E i \in Ids : ClientKey(i)
  \/ \E i, j \in Ids : Less(i, j)
  \/ Repair
  \/ \E w \in Workers : Send(w)
  \/ Close
  \/ \E w \in Workers : WorkerExit(w)
  \/ MemoizeReturn
  \/ \E p \in Workers : KeyLookup(p)
  \/ \E p \in Workers : KeyCall(p)
  \/ \E p \in Workers : KeyStoreBegin(p)
  \/ \E p \in Workers : KeyStoreEnd(p)
  \/ \E p \in Workers : KeyReturn(p)
  \/ \E p \in Workers : RaceFault(p)

Spec == Init /\ [][Next]_vars

\* The Go scheduler runs every goroutine that can take a step: the workers
\* (receive, the steps of Key, leaving the loop) and the goroutine inside
\* memoize (send, close, return from wg.Wait); wrapped.Key always returns.
\* Nothing obliges the client to make another call.
Fairness ==
  /\ \A w \in Workers :
       /\ WF_vars(Send(w))
       /\ WF_vars(WorkerExit(w))
       /\ WF_vars(KeyLookup(w))
       /\ WF_vars(KeyCall(w))
       /\ WF_vars(KeyStoreBegin(w))
       /\ WF_vars(KeyStoreEnd(w))
       /\ WF_vars(KeyReturn(w))
  /\ WF_vars(Close)
  /\ WF_vars(MemoizeReturn)

FairSpec == Spec /\ Fairness

\* ------------------------------------------- concurrent callers of Key
\* A program that builds the adapter with Keysort and then calls Key from
\* several goroutines of its own (go ks.Key(i)), as memoize's workers do.
\* Goroutine p starts a call of Key(i); it has no call running.
ConcurrentKey(p, i) ==
  /\ ~crashed
  /\ mop = "idle"
  /\ pc[p] \in {"idle", "recv"}
  /\ ki' = [ki EXCEPT ![p] = i]
  /\ pc' = [pc EXCEPT ![p] = "lookup"]
  /\ last' = NoLast
  /\ UNCHANGED <<input, shared, orig, val, err, mu, raced, mop, primed, retry,
                 pool, crashed>>

\* the condition that made the container's Key() fail is repaired while
\* calls are running
ConcurrentRepair ==
  /\ ~crashed
  /\ mop = "idle"
  /\ failing # {}
  /\ failing' = {}
  /\ last' = NoLast
  /\ UNCHANGED <<n, elemKey, data, shared, locals, mop, primed, retry, pool,
                 crashed>>

NextConc ==
  \/ Keysort
  \/ \E p \in Workers, i \in Ids : ConcurrentKey(p, i)
  \/ ConcurrentRepair
  \/ \E p \in Workers : KeyLookup(p)
  \/ \E p \in Workers : KeyCall(p)
  \/ \E p \in Workers : KeyStoreBegin(p)
  \/ \E p \in Workers : KeyStoreEnd(p)
  \/ \E p \in Workers : KeyReturn(p)
  \/ \E p \in Workers : RaceFault(p)

SpecConc == Init /\ [][NextConc]_vars

\* ================================================================ claims
\* the container's Key() has not failed and cannot fail
NeverFails == failing = {} /\ failed = {}

\* sw is a bijection on [0, n)
Bijection(sw) ==
  /\ DOMAIN sw = Ids
  /\ \A i \in Ids : sw[i] \in Ids
  /\ \A i, j \in Ids : sw[i] = sw[j] => i = j

\* the memo holds the value of a successful Key() for d
Resolved(d) == memo[d] # Absent /\ memo[d] # Sentinel

\* C1: with a key function that never fails, every answer Less(i, j) of an
\* adapter built by Keysort is the answer of the unmemoized comparator "key of
\* the element at i precedes key of the element at j" on the collection as it
\* stands; a sort that only calls Len, Swap and Less then takes the same
\* decisions through the adapter as directly, and ends in the same order.
C1_LessAgreesWithDirect ==
  (~primed /\ NeverFails /\ last.op = "less")
    => last.ret = DirectLess(last.i, last.j)

\* C2: with a key function that never fails, every answer Less(i, j) of an
\* adapter built by PrimedKeysort, for any parallelism, is the answer of the
\* unmemoized comparator, so that the sort leaves the collection sorted by key.
C2_PrimedLessAgreesWithDirect ==
  (primed /\ NeverFails /\ last.op = "less")
    => last.ret = DirectLess(last.i, last.j)

\* C3: once the memo holds a successful key for d, no step invokes the
\* container's Key() for d again, and an adapter built by Keysort never
\* invokes it more than once per identity (at most n times in total).
C3_NoRecomputation ==
  /\ [][\A d \in Ids : Resolved(d) => calls'[d] = calls[d]]_vars
  /\ [](~primed => \A d \in Ids : calls[d] <= 1)

\* a Less(i, i) has referenced a resolved identity twice after one invocation
C3_Witness ==
  /\ last.op = "less"
  /\ last.i = last.j
  /\ ~primed
  /\ Resolved(swaps[last.i])
  /\ calls[swaps[last.i]] = 1

\* C4: after PrimedKeysort has returned for a key function that never fails,
\* the memo holds a key for every identity and every identity has been
\* computed exactly once, whatever Less and Swap calls followed.
C4_PrimedMemoComplete ==
  (primed /\ mop = "idle" /\ NeverFails)
    => \A d \in Ids : memo[d] # Absent /\ calls[d] = 1

\* C5: in the priming pass of PrimedKeysort every index sent is received by
\* exactly one worker, no identity is computed twice, and when the pass
\* returns every identity in [0, n) has been computed exactly once.
C5_OncePerIdentity ==
  memoFor = "primed" =>
    /\ Len(genList) = n
    /\ \A k \in 1..n :
         Cardinality(recvBy[k]) = (IF k < genPos THEN 1 ELSE 0)
    /\ \A d \in Ids : calls[d] <= 1
    /\ last.op = "primed" =>
         \A d \in Ids : calls[d] = 1 /\ genList[d + 1] = d

\* a pass over two identities has returned, each taken by a different worker
C5_Witness ==
  /\ last.op = "primed"
  /\ n = 2
  /\ recvBy[1] # recvBy[2]
  /\ \A d \in Ids : calls[d] = 1

\* C6: when memoize returns, every index it sent has a memo entry, every
\* worker has left its loop and no Key call of the pass is still running.
C6_Barrier ==
  last.op \in {"primed", "retried"} =>
    /\ \A k \in 1..Len(genList) : memo[swaps[genList[k]]] # Absent
    /\ \A w \in 1..nworkers : pc[w] = "exited"
    /\ \A w \in Workers : pc[w] \in {"idle", "exited"}

\* C7: when RetryFailed returns after a call made with a non-empty set F of
\* recorded errors, no error recorded before the call is left and the
\* container's Key() has been invoked once for each identity in F and for no
\* other identity.
C7_RetryInvokesFailed ==
  (last.op = "retried" /\ retry.F # {}) =>
    \A d \in Ids :
      calls[d] = retry.calls[d] + (IF d \in retry.F THEN 1 ELSE 0)

\* C8: when the priming pass of PrimedKeysort has returned, the identities
\* Errors() reports are exactly those whose Key() invocation failed (none
\* when no invocation failed).
C8_ErrorsAreFailures ==
  last.op = "primed" => Errors(errors) = failed

\* C9: Less(i, j) returns false when an error is recorded once both keys are
\* resolved, and LessVal of the two resolved keys otherwise.
C9_LessDegrades ==
  last.op = "less" =>
    last.ret = (IF errors # {} THEN FALSE
                ELSE memo[swaps[last.i]] < memo[swaps[last.j]])

\* a Less returned false because of a recorded error although LessVal holds
C9_Witness ==
  /\ last.op = "less"
  /\ errors # {}
  /\ memo[swaps[last.i]] < memo[swaps[last.j]]
  /\ ~last.ret

\* C10: swaps is the identity right after Keysort and a bijection on [0, n)
\* after any sequence of Swap(i, j), i = j included.
C10_SwapsBijection ==
  /\ mop # "new" => Bijection(swaps)
  /\ last.op = "keysort" => \A i \in Ids : swaps[i] = i

\* a Swap(i, j) with i # j has left swaps different from the identity
C10_Witness ==
  /\ last.op = "swap"
  /\ last.i # last.j
  /\ swaps[0] = 1
  /\ Bijection(swaps)

\* C11: with a key function that never fails, a client call Key(p) made after
\* any sequence of Swap calls returns the key of the element that started at
\* index swaps[p], which is the element stored at position p now, cached
\* before the swaps or not.
C11_KeyFollowsSwaps ==
  (last.op = "key" /\ NeverFails)
    => /\ last.val = elemKey[swaps[last.i]]
       /\ last.val = elemKey[data[last.i]]

\* C12: a ClearErrors() call leaves no recorded error and changes neither the
\* memo nor the permutation map nor the wrapped collection.
C12_ClearErrorsFrame ==
  [][last'.op = "clear"
       => /\ errors' = {}
          /\ memo' = memo
          /\ swaps' = swaps
          /\ data' = data]_vars

\* a ClearErrors has removed the error of a failed identity and left its
\* cached sentinel
C12_Witness ==
  /\ last.op = "clear"
  /\ errors = {}
  /\ \E d \in failed : memo[d] = Sentinel

\* C13: at most one caller at a time is between a Lock and its Unlock, where
\* all reads and writes of the memo map and the error map are made.
C13_MutualExclusion ==
  \A p, q \in Workers : (mu[p] /\ mu[q]) => p = q

\* C14: a caller running the container's Key() does not hold the lock, a
\* caller writing the memo holds it, a caller about to return still holds it
\* for the deferred Unlock (on the cached and on the uncached path), and a
\* caller with no Key call running holds none.
C14_LockDiscipline ==
  \A p \in Workers :
    /\ pc[p] = "call" => ~mu[p]
    /\ pc[p] = "storing" => mu[p]
    /\ pc[p] = "ret" => mu[p]
    /\ pc[p] \in {"idle", "recv", "exited"} => ~mu[p]

\* one caller is on the cached path before its return, having returned from
\* an uncached call before, while another runs the container's Key()
C14_Witness ==
  \E p, q \in Workers :
    /\ pc[p] = "ret" /\ val[p] = Absent /\ mu[p]
    /\ pc[q] = "call" /\ ~mu[q]
    /\ \E d \in Ids : calls[d] = 1 /\ memo[d] # Absent

\* C15: under fair scheduling every memoize pass that has started eventually
\* returns, for every n >= 0 and every number of workers.
C15_MemoizeReturns == (mop \in {"gen", "wait"}) ~> (mop = "idle")

\* C16: when RetryFailed returns, called after the key function was repaired
\* and ClearErrors had removed the recorded errors, Errors() reports nothing
\* and every identity whose invocation had failed is Resolved: its memo entry
\* holds a value of the repaired key function, no longer the sentinel.
C16_RetryResolves ==
  (last.op = "retried" /\ failing = {} /\ retry.F = {})
    => \A d \in failed : Errors(errors) = {} /\ Resolved(d)

\* C17: after any sequence of Swap calls made through the adapter, the element
\* stored at every position p is the one that started at index swaps[p]; a
\* Swap(i, j) exchanges entries i and j of the permutation map and of the
\* collection and changes no other entry of either.
C17_PositionIdentity ==
  /\ [](mop # "new" => \A p \in Ids : data[p] = swaps[p])
  /\ [][last'.op = "swap"
          => /\ swaps'[last'.i] = swaps[last'.j]
             /\ swaps'[last'.j] = swaps[last'.i]
             /\ data'[last'.i] = data[last'.j]
             /\ data'[last'.j] = data[last'.i]
             /\ \A p \in Ids \ {last'.i, last'.j} :
                  swaps'[p] = swaps[p] /\ data'[p] = data[p]]_vars

\* a Swap of two different positions has moved the element that started at
\* index 0 to position 1, and swaps says so
C17_Witness ==
  /\ last.op = "swap"
  /\ last.i # last.j
  /\ data[1] = 0
  /\ swaps[1] = 0
  /\ data[0] = 1

\* caller p is the later of the two writers for its identity: both callers
\* have invoked the container's Key() for it and no other write is pending
LaterWriter(p) ==
  /\ calls[orig[p]] = 2
  /\ ~\E q \in Workers \ {p} :
        orig[q] = orig[p] /\ pc[q] \in {"store", "storing"}

\* C18: when two callers have both invoked the key function for the same
\* uncached identity d, the write of the later one leaves the memo entry of d
\* equal to the value it computed and an error recorded for d exactly when
\* its invocation failed; nothing but a caller's write changes the entry, so
\* this is what the maps hold after both calls return.
C18_LastWriterWins ==
  /\ [][\A p \in Workers :
          (pc[p] = "storing" /\ pc'[p] = "ret" /\ LaterWriter(p))
            => /\ memo'[orig[p]] = val[p]
               /\ (orig[p] \in errors') = err[p]]_vars
  /\ [][\A d \in Ids :
          memo'[d] # memo[d]
            => \E p \in Workers :
                 pc[p] = "storing" /\ pc'[p] = "ret" /\ orig[p] = d]_vars

\* C19: every identity with a recorded error has a memo entry, every key of
\* the error map and of the memo lies in [0, n), and no step removes a memo
\* entry.
C19_ErrorsWithinMemo ==
  /\ [](/\ errors \subseteq {d \in Ids : memo[d] # Absent}
        /\ DOMAIN memo = Ids)
  /\ [][\A d \in Ids : memo[d] # Absent => memo'[d] # Absent]_vars

\* C20: once the memo holds the sentinel of a failed Key() for d, no step
\* invokes the key function for d again or replaces the entry; a Key or Less
\* call leaves d's place in the error map as it was, Key returns the sentinel,
\* and with no error recorded (after ClearErrors) Less orders d by it.
C20_FailureIsCached ==
  [][\A d \in Ids :
       memo[d] = Sentinel
         => /\ calls'[d] = calls[d]
            /\ memo'[d] = Sentinel
            /\ last'.op \in {"key", "less"} => (d \in errors') = (d \in errors)
            /\ (last'.op = "key" /\ swaps[last'.i] = d)
                 => last'.val = Sentinel
            /\ (last'.op = "less" /\ swaps[last'.i] = d /\ errors' = {})
                 => last'.ret = LessVal(Sentinel, memo'[swaps[last'.j]])]_vars

\* after a failed Key() for one identity and a ClearErrors, a Less has put
\* that identity, by its sentinel, before one with a computed key, without a
\* second invocation
C20_Witness ==
  /\ last.op = "less"
  /\ errors = {}
  /\ swaps[last.i] \in failed
  /\ memo[swaps[last.i]] = Sentinel
  /\ calls[swaps[last.i]] = 1
  /\ Resolved(swaps[last.j])
  /\ last.ret

====
